---- MODULE Spec2Model ----
(***************************************************************************)
(* CourseScoutAgent: the URL validation engine with caching.               *)
(*                                                                         *)
(*   src/src/validators/base.py   extract_plain_text, fetch_url            *)
(*   src/src/validators/udemy.py  validate_udemy_url (the classifier)      *)
(*   src/src/storage/db.py        url_checks table, upsert/get             *)
(*   src/src/main.py              validate_udemy_urls (the orchestrator)   *)
(*                                                                         *)
(* Python str values that the code searches, lowercases, splits or formats *)
(* are sequences of one-character strings, so that `in`, lower(), split()  *)
(* and strip() are computed character by character.  Optional values are   *)
(* None == <<>> or Some(v) == <<v>>.  Time is counted in ticks of half a   *)
(* second: time.time() is clock/2 and int(time.time()) is clock \div 2.    *)
(***************************************************************************)
EXTENDS Bags, FiniteSets, Integers, Sequences, TLC

VARIABLES
    clock,          \* wall clock, in ticks of 1/TicksPerSecond s
    url_checks,     \* the url_checks table: a set of rows
    pc,             \* position of validate_udemy_urls: idle, loop, fetch, fetched, done
    posts,          \* argument of validate_udemy_urls
    env_urls,       \* os.getenv('UDEMY_TEST_URLS', '')
    udemy_urls,     \* the set built at main.py:26-37, as a bag of its members
    todo,           \* members of udemy_urls the for loop has not visited yet
    current_time,   \* main.py:46, in ticks
    counts,         \* fresh, cached, valid, invalid, unknown (main.py:40-44)
    url,            \* loop variable of main.py:49 / argument of fetch_url
    ret,            \* return value of validate_udemy_urls
    requests,       \* number of requests.get calls so far
    fpc,            \* position of fetch_url: off, get, sleep, returned
    attempt,        \* loop variable of base.py:93
    slept,          \* time.sleep calls of the current fetch_url call, in ticks
    fetched,        \* return value of fetch_url
    processed,      \* history: URLs the for loop has visited in this pass
    gets,           \* history: requests.get calls of this pass, by URL
    served,         \* history: rows this pass reused from the cache
    written,        \* history: per URL, what the latest upsert_url_check call wrote
    tries,          \* history: how each requests.get of the current fetch_url call ended
    advances,       \* number of times the clock was moved between passes
    arg,            \* input of a function applied on its own
    out,            \* its result
    last,           \* history: the pass that returned last, when it is kept
    db_posts,       \* the posts table: its rows, in rowid order
    post_idx,       \* position of the for loop of main.py:90 in posts
    inserted_count, \* main.py:87
    duplicate_count,\* main.py:88
    first_data,     \* history: per post_id, the row the first insert of it wrote
    runs            \* number of runs of main that have inserted posts

passVars == <<pc, posts, env_urls, udemy_urls, todo, current_time, counts, ret>>
fetchVars == <<fpc, attempt, slept, fetched>>
histVars == <<processed, gets, served, written, tries>>
funVars == <<arg, out>>
mainVars == <<db_posts, post_idx, inserted_count, duplicate_count, first_data, runs>>
vars ==
    <<clock, advances, requests, url_checks, url, passVars, fetchVars, histVars, funVars, last,
      mainVars>>

None == <<>>
Some(v) == <<v>>

----------------------------------------------------------------------------
(* Strings *)

\* "course is no longer available"
KW_NO_LONGER ==
    <<"c","o","u","r","s","e"," ","i","s"," ","n","o"," ","l","o","n","g","e","r"," ","a","v",
    "a","i","l","a","b","l","e">>

\* "we couldn't find the page"
KW_COULDNT_FIND ==
    <<"w","e"," ","c","o","u","l","d","n","'","t"," ","f","i","n","d"," ","t","h","e"," ","p",
    "a","g","e">>

\* "we could not find the page"
KW_COULD_NOT_FIND ==
    <<"w","e"," ","c","o","u","l","d"," ","n","o","t"," ","f","i","n","d"," ","t","h","e"," ",
    "p","a","g","e">>

\* "not found"
KW_NOT_FOUND ==
    <<"n","o","t"," ","f","o","u","n","d">>

\* "please log in"
KW_PLEASE_LOG_IN ==
    <<"p","l","e","a","s","e"," ","l","o","g"," ","i","n">>

\* "access denied"
KW_ACCESS_DENIED ==
    <<"a","c","c","e","s","s"," ","d","e","n","i","e","d">>

\* main.py:29: "udemy.com"
UDEMY_COM ==
    <<"u","d","e","m","y",".","c","o","m">>

\* udemy.py:27: "HTTP 404 - Page not found"
REASON_404 ==
    <<"H","T","T","P"," ","4","0","4"," ","-"," ","P","a","g","e"," ","n","o","t"," ","f","o",
    "u","n","d">>

\* udemy.py:44, up to the keyword: "Page indicates unavailability: '"
REASON_UNAVAILABLE ==
    <<"P","a","g","e"," ","i","n","d","i","c","a","t","e","s"," ","u","n","a","v","a","i","l",
    "a","b","i","l","i","t","y",":"," ","'">>

\* udemy.py:54: "HTTP 429 - Rate limited"
REASON_429 ==
    <<"H","T","T","P"," ","4","2","9"," ","-"," ","R","a","t","e"," ","l","i","m","i","t","e",
    "d">>

\* udemy.py:63: "Network error - could not fetch URL"
REASON_NETWORK ==
    <<"N","e","t","w","o","r","k"," ","e","r","r","o","r"," ","-"," ","c","o","u","l","d"," ",
    "n","o","t"," ","f","e","t","c","h"," ","U","R","L">>

\* udemy.py:78, up to the keyword: "Requires authentication: '"
REASON_AUTH ==
    <<"R","e","q","u","i","r","e","s"," ","a","u","t","h","e","n","t","i","c","a","t","i","o",
    "n",":"," ","'">>

\* udemy.py:87: "URL accessible and appears valid"
REASON_VALID ==
    <<"U","R","L"," ","a","c","c","e","s","s","i","b","l","e"," ","a","n","d"," ","a","p","p",
    "e","a","r","s"," ","v","a","l","i","d">>

\* "'"
QUOTE ==
    <<"'">>

\* " "
SPACE ==
    <<" ">>

\* a candidate URL: "udemy.com/a"
URL_A ==
    <<"u","d","e","m","y",".","c","o","m","/","a">>

\* a candidate URL in upper case: "UDEMY.COM/b"
URL_B ==
    <<"U","D","E","M","Y",".","C","O","M","/","b">>

\* a URL that is no Udemy link: "x.org/c"
URL_C ==
    <<"x",".","o","r","g","/","c">>

\* where a redirect ends: "udemy.com/r"
URL_R ==
    <<"u","d","e","m","y",".","c","o","m","/","r">>

\* a UDEMY_TEST_URLS value: "udemy.com/a, x.org/c ,udemy.com/a"
ENV_LIST ==
    <<"u","d","e","m","y",".","c","o","m","/","a",","," ","x",".","o","r","g","/","c"," ",",",
    "u","d","e","m","y",".","c","o","m","/","a">>

\* a UDEMY_TEST_URLS value of blanks: "  "
ENV_BLANK ==
    <<" "," ">>

\* page text: "Learn Python today"
TXT_LEARN ==
    <<"L","e","a","r","n"," ","P","y","t","h","o","n"," ","t","o","d","a","y">>

\* page text: "Page not found"
TXT_PAGE_NOT_FOUND ==
    <<"P","a","g","e"," ","n","o","t"," ","f","o","u","n","d">>

\* page text: "NOT FOUND"
TXT_NOT_FOUND_UPPER ==
    <<"N","O","T"," ","F","O","U","N","D">>

\* page text: "Sorry, Not Found"
TXT_NOT_FOUND_MIXED ==
    <<"S","o","r","r","y",","," ","N","o","t"," ","F","o","u","n","d">>

\* page text: "This Course Is No Longer Available"
TXT_NO_LONGER ==
    <<"T","h","i","s"," ","C","o","u","r","s","e"," ","I","s"," ","N","o"," ","L","o","n","g",
    "e","r"," ","A","v","a","i","l","a","b","l","e">>

\* page text: "We couldn't find the page"
TXT_COULDNT ==
    <<"W","e"," ","c","o","u","l","d","n","'","t"," ","f","i","n","d"," ","t","h","e"," ","p",
    "a","g","e">>

\* page text: "we could not find the page you want"
TXT_COULD_NOT ==
    <<"w","e"," ","c","o","u","l","d"," ","n","o","t"," ","f","i","n","d"," ","t","h","e"," ",
    "p","a","g","e"," ","y","o","u"," ","w","a","n","t">>

\* page text: "Please log in"
TXT_LOG_IN ==
    <<"P","l","e","a","s","e"," ","l","o","g"," ","i","n">>

\* page text: "ACCESS DENIED"
TXT_DENIED ==
    <<"A","C","C","E","S","S"," ","D","E","N","I","E","D">>

\* page text: a keyword cut short: "not foun"
TXT_NOT_FOUN ==
    <<"n","o","t"," ","f","o","u","n">>

\* page text: a keyword broken by a newline: "not\n found"
TXT_SPLIT_KW ==
    <<"n","o","t","\n"," ","f","o","u","n","d">>

----------------------------------------------------------------------------
(* Bounds *)

\* requests.get calls in one behaviour
MaxRequests == 4
\* times the clock is moved between two runs
MaxAdvances == 1
\* text chunks in a response body
MaxParts == 2

UPPER ==
    <<"A","B","C","D","E","F","G","H","I","J","K","L","M","N","O","P","Q","R","S","T","U","V",
    "W","X","Y","Z">>

LOWER ==
    <<"a","b","c","d","e","f","g","h","i","j","k","l","m","n","o","p","q","r","s","t","u","v",
    "w","x","y","z">>

\* str.lower(), one character
lower_char(c) ==
    IF \E i \in 1..Len(UPPER) : UPPER[i] = c
    THEN LOWER[CHOOSE i \in 1..Len(UPPER) : UPPER[i] = c]
    ELSE c

\* str.lower()
lower(s) == [i \in 1..Len(s) |-> lower_char(s[i])]

\* the Python expression `needle in hay` on two str values
Contains(needle, hay) ==
    \E i \in 0..(Len(hay) - Len(needle)) : SubSeq(hay, i + 1, i + Len(needle)) = needle

\* what str.split() and str.strip() take for whitespace
IsSpace(c) == c \in {" ", "\t", "\n", "\r", "\f"}

\* str.strip()
strip(s) ==
    LET keep == {i \in 1..Len(s) : ~IsSpace(s[i])}
    IN  IF keep = {} THEN <<>>
        ELSE SubSeq(s, CHOOSE i \in keep : \A j \in keep : i <= j,
                       CHOOSE i \in keep : \A j \in keep : j <= i)

\* sep.join(parts)
RECURSIVE join(_, _)
join(sep, parts) ==
    IF parts = <<>> THEN <<>>
    ELSE IF Len(parts) = 1 THEN parts[1]
    ELSE parts[1] \o sep \o join(sep, Tail(parts))

\* str.split(): the maximal runs of non-whitespace characters, in order
RECURSIVE split(_)
split(s) ==
    IF \A i \in 1..Len(s) : IsSpace(s[i]) THEN <<>>
    ELSE LET first == CHOOSE i \in 1..Len(s) :
                          ~IsSpace(s[i]) /\ \A j \in 1..(i - 1) : IsSpace(s[j])
             stop  == IF \E i \in first..Len(s) : IsSpace(s[i])
                      THEN CHOOSE i \in first..Len(s) :
                               IsSpace(s[i]) /\ \A j \in first..(i - 1) : ~IsSpace(s[j])
                      ELSE Len(s) + 1
         IN  <<SubSeq(s, first, stop - 1)>> \o split(SubSeq(s, stop, Len(s)))

\* str.split(sep) for a one-character sep: the pieces between separators, empty ones kept
RECURSIVE split_on(_, _)
split_on(s, sep) ==
    IF \A i \in 1..Len(s) : s[i] # sep THEN <<s>>
    ELSE LET at == CHOOSE i \in 1..Len(s) : s[i] = sep /\ \A j \in 1..(i - 1) : s[j] # sep
         IN  <<SubSeq(s, 1, at - 1)>> \o split_on(SubSeq(s, at + 1, Len(s)), sep)

----------------------------------------------------------------------------
(* validators/base.py *)

ValidationStatus ==
    [VALID |-> [value |-> "VALID"], INVALID |-> [value |-> "INVALID"],
     UNKNOWN |-> [value |-> "UNKNOWN"]]

ValidationResult(u, status, reason, final_url, http_status) ==
    [url |-> u, status |-> status, reason |-> reason, final_url |-> final_url,
     http_status |-> http_status]

DEFAULT_MAX_LENGTH == 2000

\* HTMLTextExtractor.get_text: the chunks handle_data collected, joined by one space
get_text(text_parts) == join(SPACE, text_parts)

\* text[:stop]: a negative stop counts from the end of the string
slice_to(s, stop) ==
    IF stop >= 0
    THEN SubSeq(s, 1, IF stop < Len(s) THEN stop ELSE Len(s))
    ELSE SubSeq(s, 1, IF Len(s) + stop > 0 THEN Len(s) + stop ELSE 0)

\* Variant: the whitespace is not cleaned up, `' '.join(text.split())` is left out.
extract_plain_text_no_cleanup(html_content, max_length) ==
    IF html_content.error THEN <<>>
    ELSE LET text == get_text(html_content.parts)
         IN  IF Len(text) > max_length THEN slice_to(text, max_length) ELSE text

\* A response body is the sequence of text chunks HTMLParser.feed hands to handle_data
\* (parts), or a body on which feed raises (error).
extract_plain_text(html_content, max_length) ==
    IF html_content.error THEN <<>>
    ELSE LET text  == get_text(html_content.parts)
             clean == join(SPACE, split(text))
         IN  IF Len(clean) > max_length THEN slice_to(clean, max_length) ELSE clean

----------------------------------------------------------------------------
(* validators/udemy.py *)

invalid_keywords == <<KW_NO_LONGER, KW_COULDNT_FIND, KW_COULD_NOT_FIND, KW_NOT_FOUND>>

unknown_keywords == <<KW_PLEASE_LOG_IN, KW_ACCESS_DENIED>>

\* the keyword at which `for keyword in keywords: if keyword in text: return` returns
Matches(keywords, text) == {i \in 1..Len(keywords) : Contains(keywords[i], text)}

FirstMatch(keywords, text) ==
    keywords[CHOOSE i \in Matches(keywords, text) : \A j \in Matches(keywords, text) : i <= j]

\* udemy.py:23-90: the rules, on what fetch_url returned and the lowercased snippet
classify(u, http_status, final_url, text_lower) ==
    IF http_status = Some(404)
    THEN ValidationResult(u, ValidationStatus.INVALID, REASON_404, final_url, http_status)
    ELSE IF Matches(invalid_keywords, text_lower) # {}
    THEN ValidationResult(u, ValidationStatus.INVALID,
             REASON_UNAVAILABLE \o FirstMatch(invalid_keywords, text_lower) \o QUOTE,
             final_url, http_status)
    ELSE IF http_status = Some(429)
    THEN ValidationResult(u, ValidationStatus.UNKNOWN, REASON_429, final_url, http_status)
    ELSE IF http_status = None
    THEN ValidationResult(u, ValidationStatus.UNKNOWN, REASON_NETWORK, final_url, http_status)
    ELSE IF Matches(unknown_keywords, text_lower) # {}
    THEN ValidationResult(u, ValidationStatus.UNKNOWN,
             REASON_AUTH \o FirstMatch(unknown_keywords, text_lower) \o QUOTE,
             final_url, http_status)
    ELSE ValidationResult(u, ValidationStatus.VALID, REASON_VALID, final_url, http_status)

\* Variant: the keyword rule is tried before the 404 rule.
validate_udemy_url_keywords_first(u, f) ==
    IF Matches(invalid_keywords, lower(f[3])) # {}
    THEN ValidationResult(u, ValidationStatus.INVALID,
             REASON_UNAVAILABLE \o FirstMatch(invalid_keywords, lower(f[3])) \o QUOTE,
             f[2], f[1])
    ELSE classify(u, f[1], f[2], lower(f[3]))

\* Variant: the snippet is searched as it is, not lowercased.
validate_udemy_url_no_lower(u, f) == classify(u, f[1], f[2], f[3])

\* Variant: the login rule is tried before the INVALID keyword rule.
validate_udemy_url_login_first(u, f) ==
    IF f[1] \notin {None, Some(404), Some(429)} /\ Matches(unknown_keywords, lower(f[3])) # {}
    THEN ValidationResult(u, ValidationStatus.UNKNOWN,
             REASON_AUTH \o FirstMatch(unknown_keywords, lower(f[3])) \o QUOTE, f[2], f[1])
    ELSE classify(u, f[1], f[2], lower(f[3]))

\* Variant: no rule for a missing http_status, which then falls to the default.
validate_udemy_url_no_network_rule(u, f) ==
    IF f[1] = None
    THEN ValidationResult(u, ValidationStatus.VALID, REASON_VALID, f[2], f[1])
    ELSE classify(u, f[1], f[2], lower(f[3]))

\* Variant: a server error (5xx) that no other rule takes is UNKNOWN, not VALID.
validate_udemy_url_server_error(u, f) ==
    IF /\ f[1] # None
       /\ f[1][1] >= 500
       /\ classify(u, f[1], f[2], lower(f[3])).status = ValidationStatus.VALID
    THEN ValidationResult(u, ValidationStatus.UNKNOWN, REASON_NETWORK, f[2], f[1])
    ELSE classify(u, f[1], f[2], lower(f[3]))

\* Variant: the login rule is tried before the 429 rule.
validate_udemy_url_login_before_429(u, f) ==
    IF /\ f[1] = Some(429)
       /\ Matches(invalid_keywords, lower(f[3])) = {}
       /\ Matches(unknown_keywords, lower(f[3])) # {}
    THEN ValidationResult(u, ValidationStatus.UNKNOWN,
             REASON_AUTH \o FirstMatch(unknown_keywords, lower(f[3])) \o QUOTE, f[2], f[1])
    ELSE classify(u, f[1], f[2], lower(f[3]))

\* validate_udemy_url after its call of fetch_url; f is what fetch_url returned:
\* <<http_status, final_url, text_snippet>>
validate_udemy_url(u, f) == classify(u, f[1], f[2], lower(f[3]))

----------------------------------------------------------------------------
(* Time.  One tick is half a second, the unit of the backoff at base.py:113. *)

\* t seconds, in ticks
Seconds(t) == 2 * t

\* int(time.time()) when the clock shows c ticks
int_time(c) == c \div 2

----------------------------------------------------------------------------
(* validators/base.py: fetch_url, one action per pass through its loop body *)

max_retries == 2

\* Variant: the factor 0.5 is left out, time.sleep(attempt + 1).
backoff_whole_seconds(a) == Seconds(a + 1)

\* time.sleep(0.5 * (attempt + 1)), in ticks
backoff(a) == a + 1

\* Variant: `while True`, a failed attempt is always followed by another one.
on_exception_no_limit(ended) ==
    /\ tries' = Append(tries, ended)
    /\ slept' = Append(slept, backoff(attempt))
    /\ clock' = clock + backoff(attempt)
    /\ attempt' = attempt + 1
    /\ UNCHANGED <<fpc, fetched>>

\* base.py:110-116: the except branch; how the attempt ended is kept in tries
on_exception(ended) ==
    /\ tries' = Append(tries, ended)
    /\ IF attempt < max_retries
       THEN /\ slept' = Append(slept, backoff(attempt))
            /\ clock' = clock + backoff(attempt)
            /\ attempt' = attempt + 1
            /\ UNCHANGED <<fpc, fetched>>
       ELSE /\ fetched' = <<None, None, <<>>>>
            /\ fpc' = "returned"
            /\ UNCHANGED <<slept, clock, attempt>>

\* base.py:102-108: the rest of the try branch, on the response r
on_response(r) ==
    /\ tries' = Append(tries, [kind |-> "response", response |-> r])
    /\ fetched' = <<Some(r.status_code), Some(r.url),
                    extract_plain_text(r.text, DEFAULT_MAX_LENGTH)>>
    /\ fpc' = "returned"
    /\ UNCHANGED <<clock, attempt, slept>>

\* requests.get raised a RequestException
GetFails ==
    /\ fpc = "get"
    /\ requests < MaxRequests
    /\ requests' = requests + 1
    /\ gets' = gets (+) SetToBag({url})
    /\ on_exception([kind |-> "error"])
    /\ UNCHANGED <<advances, url_checks, url, passVars, processed, served, written, funVars, last, mainVars>>

\* Variant: response.raise_for_status() inside the try, as the collector's
\* fetch_reddit_posts has it: a status of 400 or more ends in the except branch.
GetResponds_raise_for_status(r) ==
    /\ fpc = "get"
    /\ requests < MaxRequests
    /\ requests' = requests + 1
    /\ gets' = gets (+) SetToBag({url})
    /\ IF r.status_code >= 400
       THEN on_exception([kind |-> "response", response |-> r])
       ELSE on_response(r)
    /\ UNCHANGED <<advances, url_checks, url, passVars, processed, served, written, funVars, last, mainVars>>

\* requests.get returned the response r
GetResponds(r) ==
    /\ fpc = "get"
    /\ requests < MaxRequests
    /\ requests' = requests + 1
    /\ gets' = gets (+) SetToBag({url})
    /\ on_response(r)
    /\ UNCHANGED <<advances, url_checks, url, passVars, processed, served, written, funVars, last, mainVars>>

----------------------------------------------------------------------------
(* storage/db.py: the url_checks table *)

\* the row `INSERT ... VALUES (?, ?, ?, ?, ?, ?)` proposes
Row(u, status, reason, http_status, final_url, checked_at) ==
    [url |-> u, status |-> status, reason |-> reason, http_status |-> http_status,
     final_url |-> final_url, checked_at |-> checked_at]

\* getattr(result, name, None) / result.get(name) for the optional columns
getattr(result, name) == IF name \in DOMAIN result THEN result[name] ELSE None

\* Variant: str() of an enum member too, which is the member's qualified name.
status_text_str(status) ==
    IF "value" \in DOMAIN status THEN "ValidationStatus." \o status.value ELSE status.str

\* db.py:139-143: an enum member gives its value, anything else its str()
status_text(status) == IF "value" \in DOMAIN status THEN status.value ELSE status.str

\* Variant: the row is stamped with the clock reading the pass took at its start.
stamp_pass_start(checked_at, now) ==
    IF checked_at = None THEN int_time(current_time) ELSE checked_at[1]

\* db.py:146-147
stamp(checked_at, now) == IF checked_at = None THEN int_time(now) ELSE checked_at[1]

\* ON CONFLICT(url) DO UPDATE SET ...: the row in conflict, rewritten from the proposed one
do_update(old, new) ==
    [old EXCEPT !.status = new.status, !.reason = new.reason,
                !.http_status = new.http_status, !.final_url = new.final_url,
                !.checked_at = new.checked_at]

\* Variant: INSERT OR IGNORE, the row in conflict is kept as it is.
insert_or_ignore(table, new) ==
    IF \E r \in table : r.url = new.url THEN table ELSE table \cup {new}

\* INSERT INTO url_checks ... ON CONFLICT(url) DO UPDATE (db.py:153-162)
insert_on_conflict(table, new) ==
    IF \E r \in table : r.url = new.url
    THEN {IF r.url = new.url THEN do_update(r, new) ELSE r : r \in table}
    ELSE table \cup {new}

\* upsert_url_check at clock value now: the table it leaves
upsert_url_check(table, result, now) ==
    insert_on_conflict(table,
        Row(result.url, status_text(result.status), result.reason,
            getattr(result, "http_status"), getattr(result, "final_url"),
            stamp(getattr(result, "checked_at"), now)))

\* get_url_check: the row as a dict, or None
get_url_check(table, u) ==
    IF \E r \in table : r.url = u
    THEN Some(CHOOSE r \in table : r.url = u)
    ELSE None

----------------------------------------------------------------------------
(* main.py: validate_udemy_urls *)

CACHE_TTL_SECONDS == 86400

\* Variant: list.append, the URLs are collected in a list.
list_append(s, x) == s (+) SetToBag({x})

\* set.add
set_add(s, x) == IF BagIn(x, s) THEN s ELSE s (+) SetToBag({x})

\* main.py:29
is_udemy(u) == Contains(UDEMY_COM, lower(u))

\* main.py:27-30 over the URLs of one post, then over the posts
RECURSIVE add_urls(_, _)
add_urls(s, urls) ==
    IF urls = <<>> THEN s
    ELSE add_urls(IF is_udemy(Head(urls)) THEN set_add(s, Head(urls)) ELSE s, Tail(urls))

RECURSIVE add_posts(_, _)
add_posts(s, ps) ==
    IF ps = <<>> THEN s ELSE add_posts(add_urls(s, Head(ps).outbound_urls), Tail(ps))

\* set(url.strip() for url in fallback_urls.split(','))
RECURSIVE set_of_stripped(_, _)
set_of_stripped(s, pieces) ==
    IF pieces = <<>> THEN s
    ELSE set_of_stripped(set_add(s, strip(Head(pieces))), Tail(pieces))

\* Variant: a non-empty fallback list is always used, added to what the posts gave.
collect_urls_fallback_added(ps, env) ==
    LET found == add_posts(EmptyBag, ps)
    IN  IF strip(env) # <<>> THEN set_of_stripped(found, split_on(strip(env), ","))
        ELSE found

\* main.py:26-37
collect_urls(ps, env) ==
    LET found == add_posts(EmptyBag, ps)
    IN  IF found # EmptyBag THEN found
        ELSE IF strip(env) # <<>> THEN set_of_stripped(EmptyBag, split_on(strip(env), ","))
        ELSE found

\* Variant: only a VALID entry is reused, other verdicts are checked again.
cache_valid_valid_only(cached, now) ==
    /\ cached # None
    /\ cached[1].status = "VALID"
    /\ now - Seconds(cached[1].checked_at) < Seconds(CACHE_TTL_SECONDS)

\* Variant: <= in place of <.
cache_valid_inclusive(cached, now) ==
    /\ cached # None
    /\ now - Seconds(cached[1].checked_at) <= Seconds(CACHE_TTL_SECONDS)

\* Variant: `if cached:`, an entry never expires.
cache_valid_no_expiry(cached, now) == cached # None

\* main.py:53
cache_valid(cached, now) ==
    /\ cached # None
    /\ now - Seconds(cached[1].checked_at) < Seconds(CACHE_TTL_SECONDS)

\* Variant: `if` in place of `elif`, a VALID status also reaches the else branch.
count_status_two_ifs(c, status_str) ==
    LET c1 == IF status_str = "VALID" THEN [c EXCEPT !.valid = @ + 1] ELSE c
    IN  IF status_str = "INVALID" THEN [c1 EXCEPT !.invalid = @ + 1]
        ELSE [c1 EXCEPT !.unknown = @ + 1]

\* main.py:66-71
count_status(c, status_str) ==
    IF status_str = "VALID" THEN [c EXCEPT !.valid = @ + 1]
    ELSE IF status_str = "INVALID" THEN [c EXCEPT !.invalid = @ + 1]
    ELSE [c EXCEPT !.unknown = @ + 1]

\* main.py:73
total_count(s) == BagCardinality(s)

ZeroCounts == [fresh |-> 0, cached |-> 0, valid |-> 0, invalid |-> 0, unknown |-> 0]

\* what an upsert_url_check call at clock value now is asked to leave in the table for
\* result.url, and whether the URL was written before (times: 1, or 2 for more than once)
Asked(result, now, before) ==
    [status |-> status_text(result.status), reason |-> result.reason,
     http_status |-> getattr(result, "http_status"),
     final_url |-> getattr(result, "final_url"),
     checked_at |-> IF getattr(result, "checked_at") = None THEN int_time(now)
                    ELSE getattr(result, "checked_at")[1],
     times |-> IF result.url \in DOMAIN before THEN 2 ELSE 1]

\* main.py:15-46: the call, up to the first iteration of the for loop
StartPass(ps, env) ==
    /\ pc = "idle"
    /\ posts' = ps
    /\ env_urls' = env
    /\ udemy_urls' = collect_urls(ps, env)
    /\ todo' = collect_urls(ps, env)
    /\ counts' = ZeroCounts
    /\ current_time' = clock
    /\ ret' = None
    /\ pc' = "loop"
    /\ processed' = EmptyBag
    /\ gets' = EmptyBag
    /\ served' = {}
    /\ UNCHANGED <<clock, advances, requests, url_checks, url, fetchVars, written, tries,
                   funVars, last, mainVars>>

\* Variant: a cache hit is written back to the store, which stamps it with the time of
\* the hit.
VisitCached_write_back(u) ==
    /\ pc = "loop"
    /\ BagIn(u, todo)
    /\ LET cached == get_url_check(url_checks, u)
       IN  /\ cache_valid(cached, current_time)
           /\ counts' = count_status([counts EXCEPT !.cached = @ + 1], cached[1].status)
           /\ served' = served \cup {cached[1]}
           /\ url_checks' = insert_on_conflict(url_checks,
                                [cached[1] EXCEPT !.checked_at = int_time(clock)])
    /\ url' = u
    /\ todo' = todo (-) SetToBag({u})
    /\ processed' = processed (+) SetToBag({u})
    /\ UNCHANGED <<clock, advances, requests, pc, posts, env_urls, udemy_urls,
                   current_time, ret, fetchVars, gets, written, tries, funVars, last, mainVars>>

\* main.py:49-56, 66-71: an iteration that finds a valid cache entry
VisitCached(u) ==
    /\ pc = "loop"
    /\ BagIn(u, todo)
    /\ LET cached == get_url_check(url_checks, u)
       IN  /\ cache_valid(cached, current_time)
           /\ counts' = count_status([counts EXCEPT !.cached = @ + 1], cached[1].status)
           /\ served' = served \cup {cached[1]}
    /\ url' = u
    /\ todo' = todo (-) SetToBag({u})
    /\ processed' = processed (+) SetToBag({u})
    /\ UNCHANGED <<clock, advances, requests, url_checks, pc, posts, env_urls, udemy_urls,
                   current_time, ret, fetchVars, gets, written, tries, funVars, last, mainVars>>

\* main.py:49-53, 57-59: an iteration that finds none, up to the call of fetch_url
VisitFresh(u) ==
    /\ pc = "loop"
    /\ BagIn(u, todo)
    /\ ~cache_valid(get_url_check(url_checks, u), current_time)
    /\ url' = u
    /\ todo' = todo (-) SetToBag({u})
    /\ processed' = processed (+) SetToBag({u})
    /\ pc' = "fetch"
    /\ fpc' = "get"
    /\ attempt' = 0
    /\ slept' = <<>>
    /\ tries' = <<>>
    /\ UNCHANGED <<clock, advances, requests, url_checks, posts, env_urls, udemy_urls,
                   current_time, counts, ret, fetched, gets, served, written, funVars, last, mainVars>>

\* udemy.py:20-90 and main.py:60-71: from the return of fetch_url to the end of the iteration
Persist ==
    /\ pc = "fetch"
    /\ fpc = "returned"
    /\ LET result == validate_udemy_url(url, fetched)
       IN  /\ url_checks' = upsert_url_check(url_checks, result, clock)
           /\ written' = (result.url :> Asked(result, clock, written)) @@ written
           /\ counts' = count_status([counts EXCEPT !.fresh = @ + 1], result.status.value)
    /\ pc' = "loop"
    /\ fpc' = "off"
    /\ UNCHANGED <<clock, advances, requests, url, posts, env_urls, udemy_urls, todo,
                   current_time, ret, attempt, slept, fetched, processed, gets, served,
                   tries, funVars, last, mainVars>>

\* main.py:73-74
Return ==
    /\ pc = "loop"
    /\ todo = EmptyBag
    /\ ret' = Some(<<total_count(udemy_urls), counts.fresh, counts.cached, counts.valid,
                     counts.invalid, counts.unknown>>)
    /\ pc' = "done"
    /\ UNCHANGED <<clock, advances, requests, url_checks, url, posts, env_urls,
                   udemy_urls, todo, current_time, counts, fetchVars, histVars, funVars, last, mainVars>>

\* the caller is done with the returned counts: nothing of the call is left but the store
Exit ==
    /\ pc = "done"
    /\ pc' = "idle"
    /\ posts' = <<>>
    /\ env_urls' = <<>>
    /\ udemy_urls' = EmptyBag
    /\ todo' = EmptyBag
    /\ current_time' = 0
    /\ counts' = ZeroCounts
    /\ ret' = None
    /\ url' = <<>>
    /\ attempt' = 0
    /\ slept' = <<>>
    /\ fetched' = <<None, None, <<>>>>
    /\ processed' = EmptyBag
    /\ gets' = EmptyBag
    /\ served' = {}
    /\ tries' = <<>>
    /\ UNCHANGED <<clock, advances, requests, url_checks, fpc, written, funVars, last, mainVars>>

\* time passes between two runs of the program
Advance(d) ==
    /\ pc = "idle"
    /\ advances < MaxAdvances
    /\ advances' = advances + 1
    /\ clock' = clock + d
    /\ UNCHANGED <<requests, url_checks, url, passVars, fetchVars, histVars, funVars, last, mainVars>>

----------------------------------------------------------------------------
(* The environment: inputs, responses, elapsed time *)

Post(urls) == [outbound_urls |-> urls]

\* <<posts, UDEMY_TEST_URLS>>
Inputs ==
    { <<<<Post(<<URL_A, URL_A, URL_B>>)>>, <<>>>>,
      <<<<Post(<<URL_A, URL_C>>), Post(<<URL_A>>)>>, ENV_LIST>>,
      <<<<Post(<<URL_C>>)>>, ENV_LIST>>,
      <<<<>>, ENV_BLANK>> }

Response(code, final, text) == [status_code |-> code, url |-> final, text |-> text]

Page(parts) == [parts |-> parts, error |-> FALSE]

StatusCodes == {200, 403, 404, 429, 500}

Texts ==
    {TXT_LEARN, TXT_PAGE_NOT_FOUND, TXT_NOT_FOUND_UPPER, TXT_NOT_FOUND_MIXED, TXT_NO_LONGER,
     TXT_COULDNT, TXT_COULD_NOT, TXT_LOG_IN, TXT_DENIED, TXT_NOT_FOUN, TXT_SPLIT_KW}

\* bodies of up to MaxParts chunks, and one the parser fails on
Pages ==
    {Page(p) : p \in UNION {[1..n -> Texts] : n \in 0..MaxParts}}
        \cup {[parts |-> <<TXT_PAGE_NOT_FOUND>>, error |-> TRUE]}

\* what a server may answer to a GET of u
Responses(u) == {Response(c, f, p) : c \in StatusCodes, f \in {u, URL_R}, p \in Pages}

\* the answers fetch_url is run against on its own: bodies of at most one chunk
FetchResponses(u) ==
    {Response(c, f, p) :
        c \in StatusCodes, f \in {u, URL_R},
        p \in {Page(<<>>), [parts |-> <<TXT_PAGE_NOT_FOUND>>, error |-> TRUE]}
                \cup {Page(<<t>>) : t \in Texts}}

\* the answers the validation passes are run against
PassResponses(u) ==
    { Response(200, u, Page(<<TXT_LEARN>>)),
      Response(404, URL_R, Page(<<TXT_PAGE_NOT_FOUND>>)) }

\* time between two runs, in ticks: half a second, and the cache lifetime give or take 1 s
Deltas ==
    {1, Seconds(CACHE_TTL_SECONDS - 1), Seconds(CACHE_TTL_SECONDS),
     Seconds(CACHE_TTL_SECONDS + 1)}

----------------------------------------------------------------------------
(* The program: validation passes over the store.  The store is taken to work: no     *)
(* sqlite3.Error is raised by get_url_check or upsert_url_check.                     *)

\* init_db on a new database file: no posts; main has not run
InitMain ==
    /\ db_posts = <<>>
    /\ post_idx = 0
    /\ inserted_count = 0
    /\ duplicate_count = 0
    /\ first_data = <<>>
    /\ runs = 0

InitPass ==
    /\ pc = "idle"
    /\ posts = <<>>
    /\ env_urls = <<>>
    /\ udemy_urls = EmptyBag
    /\ todo = EmptyBag
    /\ current_time = 0
    /\ counts = ZeroCounts
    /\ ret = None

InitHist ==
    /\ processed = EmptyBag
    /\ gets = EmptyBag
    /\ served = {}
    /\ written = <<>>
    /\ tries = <<>>

\* the state after init_db on a new database file, before the first pass
Init ==
    /\ clock = 0
    /\ advances = 0
    /\ requests = 0
    /\ url_checks = {}
    /\ url = <<>>
    /\ InitPass
    /\ fpc = "off"
    /\ attempt = 0
    /\ slept = <<>>
    /\ fetched = <<None, None, <<>>>>
    /\ InitHist
    /\ arg = None
    /\ out = None
    /\ last = None
    /\ InitMain

Next ==
    \/ \E i \in Inputs : StartPass(i[1], i[2])
    \/ \E u \in BagToSet(todo) : VisitCached(u)
    \/ \E u \in BagToSet(todo) : VisitFresh(u)
    \/ GetFails
    \/ fpc = "get" /\ \E r \in PassResponses(url) : GetResponds(r)
    \/ Persist
    \/ Return
    \/ Exit
    \/ \E d \in Deltas : Advance(d)

Spec == Init /\ [][Next]_vars

----------------------------------------------------------------------------
(* fetch_url on its own: one call for a URL, against every status code *)

FetchInit ==
    /\ clock = 0
    /\ advances = 0
    /\ requests = 0
    /\ url_checks = {}
    /\ url \in {URL_A, URL_B}
    /\ InitPass
    /\ fpc = "get"
    /\ attempt = 0
    /\ slept = <<>>
    /\ fetched = <<None, None, <<>>>>
    /\ InitHist
    /\ arg = None
    /\ out = None
    /\ last = None
    /\ InitMain

FetchNext ==
    \/ GetFails
    \/ fpc = "get" /\ \E r \in FetchResponses(url) : GetResponds(r)

\* requests.get is called with a timeout: every call returns or raises
SpecFetch == FetchInit /\ [][FetchNext]_vars /\ WF_vars(FetchNext)

----------------------------------------------------------------------------
(* The classifier on its own, over everything fetch_url can return *)

FetchOutcomes(u) ==
    {<<None, None, <<>>>>}
        \cup {<<Some(r.status_code), Some(r.url),
                extract_plain_text(r.text, DEFAULT_MAX_LENGTH)>> : r \in Responses(u)}

ClassifyInit ==
    /\ clock = 0
    /\ advances = 0
    /\ requests = 0
    /\ url_checks = {}
    /\ url = URL_A
    /\ InitPass
    /\ fpc = "returned"
    /\ attempt = 0
    /\ slept = <<>>
    /\ fetched \in FetchOutcomes(URL_A)
    /\ InitHist
    /\ arg = None
    /\ out = None
    /\ last = None
    /\ InitMain

Classify ==
    /\ out = None
    /\ out' = Some(validate_udemy_url(url, fetched))
    /\ UNCHANGED <<clock, advances, requests, url_checks, url, passVars, fetchVars, histVars,
                   arg, last, mainVars>>

SpecClassify == ClassifyInit /\ [][Classify]_vars

----------------------------------------------------------------------------
(* extract_plain_text on its own, with any max_length, and the classifier on its result *)

ExtractChars == {"a", " ", "\t", "\n"}

\* text chunks of up to two characters, whitespace among them
ExtractTexts ==
    {<<>>} \cup {<<c>> : c \in ExtractChars} \cup {<<c, d>> : c, d \in ExtractChars}

\* bodies of up to MaxParts chunks, and bodies the parser fails on
ExtractPages ==
    {Page(p) : p \in UNION {[1..n -> ExtractTexts] : n \in 0..MaxParts}}
        \cup {[parts |-> p, error |-> TRUE] : p \in {<<>>, <<TXT_PAGE_NOT_FOUND>>}}

\* values of max_length: the default, short ones, and ones below zero
MaxLengths == {-2, -1, 0, 1, 2, 3, DEFAULT_MAX_LENGTH}

ExtractInit ==
    /\ clock = 0
    /\ advances = 0
    /\ requests = 0
    /\ url_checks = {}
    /\ url = URL_A
    /\ InitPass
    /\ fpc = "get"
    /\ attempt = 0
    /\ slept = <<>>
    /\ fetched = <<None, None, <<>>>>
    /\ InitHist
    /\ arg \in {Some([html_content |-> p, max_length |-> m, status_code |-> c]) :
                   p \in ExtractPages, m \in MaxLengths, c \in {200, 404, 429}}
    /\ out = None
    /\ last = None
    /\ InitMain

\* base.py:104-108 with max_length as a parameter: the snippet is taken of the body of a
\* response and returned with its status code and URL
Extract ==
    /\ fpc = "get"
    /\ fpc' = "returned"
    /\ fetched' = <<Some(arg[1].status_code), Some(url),
                    extract_plain_text(arg[1].html_content, arg[1].max_length)>>
    /\ UNCHANGED <<clock, advances, requests, url_checks, url, passVars, attempt, slept,
                   histVars, funVars, last, mainVars>>

ExtractNext ==
    \/ Extract
    \/ fpc = "returned" /\ Classify

SpecExtract == ExtractInit /\ [][ExtractNext]_vars

----------------------------------------------------------------------------
(* The store on its own: any sequence of upserts and lookups *)

\* results as the orchestrator builds them, and dicts with or without a checked_at
StoreInputs(u) ==
    { ValidationResult(u, ValidationStatus.VALID, REASON_VALID, Some(u), Some(200)),
      ValidationResult(u, ValidationStatus.INVALID, REASON_404, Some(URL_R), Some(404)),
      ValidationResult(u, ValidationStatus.UNKNOWN, REASON_NETWORK, None, None),
      [url |-> u, status |-> [str |-> "VALID"], reason |-> REASON_VALID,
       checked_at |-> Some(1)],
      [url |-> u, status |-> ValidationStatus.UNKNOWN, reason |-> REASON_429,
       http_status |-> Some(429), final_url |-> Some(u), checked_at |-> None] }

Upsert(result) ==
    /\ pc = "idle"
    /\ url_checks' = upsert_url_check(url_checks, result, clock)
    /\ written' = (result.url :> Asked(result, clock, written)) @@ written
    /\ UNCHANGED <<clock, advances, requests, url, passVars, fetchVars, processed, gets,
                   served, tries, funVars, last, mainVars>>

Get(u) ==
    /\ pc = "idle"
    /\ arg' = Some(u)
    /\ out' = get_url_check(url_checks, u)
    /\ UNCHANGED <<clock, advances, requests, url_checks, url, passVars, fetchVars,
                   histVars, last, mainVars>>

StoreNext ==
    \/ \E u \in {URL_A, URL_B} : \E result \in StoreInputs(u) : Upsert(result)
    \/ \E u \in {URL_A, URL_B} : Get(u)
    \/ \E d \in {1, 2} : Advance(d)

SpecStore == Init /\ [][StoreNext]_vars

----------------------------------------------------------------------------
(* The validation passes over a store that can fail: sqlite3.Error out of get_url_check *)
(* or upsert_url_check.  Neither validate_udemy_urls nor main catches it.               *)

\* db.py:203-205 under main.py:51: the lookup of u raises; the call is over, nothing returned
LookupRaises(u) ==
    /\ pc = "loop"
    /\ BagIn(u, todo)
    /\ url' = u
    /\ todo' = todo (-) SetToBag({u})
    /\ processed' = processed (+) SetToBag({u})
    /\ pc' = "raised"
    /\ UNCHANGED <<clock, advances, requests, url_checks, posts, env_urls, udemy_urls,
                   current_time, counts, ret, fetchVars, gets, served, written, tries,
                   funVars, last, mainVars>>

\* the table a failed upsert_url_check leaves: the INSERT is one statement in one
\* transaction, so either it was committed before the error or nothing was written
failed_upsert(table, result, now, committed) ==
    IF committed THEN upsert_url_check(table, result, now) ELSE table

\* Variant: the error is caught in the loop, which goes on with the next URL.
UpsertRaises_caught(committed) ==
    /\ pc = "fetch"
    /\ fpc = "returned"
    /\ url_checks' = failed_upsert(url_checks, validate_udemy_url(url, fetched), clock,
                                   committed)
    /\ pc' = "loop"
    /\ fpc' = "off"
    /\ UNCHANGED <<clock, advances, requests, url, posts, env_urls, udemy_urls, todo,
                   current_time, counts, ret, attempt, slept, fetched, processed, gets,
                   served, written, tries, funVars, last, mainVars>>

\* db.py:166-168 under main.py:62: the upsert of the verdict raises; the call is over
UpsertRaises(committed) ==
    /\ pc = "fetch"
    /\ fpc = "returned"
    /\ url_checks' = failed_upsert(url_checks, validate_udemy_url(url, fetched), clock,
                                   committed)
    /\ pc' = "raised"
    /\ fpc' = "off"
    /\ UNCHANGED <<clock, advances, requests, url, posts, env_urls, udemy_urls, todo,
                   current_time, counts, ret, attempt, slept, fetched, processed, gets,
                   served, written, tries, funVars, last, mainVars>>

\* main.py:97: the error leaves main, the run is over; nothing of it is left but the store
Abort ==
    /\ pc = "raised"
    /\ pc' = "idle"
    /\ posts' = <<>>
    /\ env_urls' = <<>>
    /\ udemy_urls' = EmptyBag
    /\ todo' = EmptyBag
    /\ current_time' = 0
    /\ counts' = ZeroCounts
    /\ ret' = None
    /\ url' = <<>>
    /\ attempt' = 0
    /\ slept' = <<>>
    /\ fetched' = <<None, None, <<>>>>
    /\ processed' = EmptyBag
    /\ gets' = EmptyBag
    /\ served' = {}
    /\ tries' = <<>>
    /\ UNCHANGED <<clock, advances, requests, url_checks, fpc, written, funVars, last, mainVars>>

\* runs that follow each other at once: the clock moves with the backoff sleeps only
FailNext ==
    \/ \E i \in Inputs : StartPass(i[1], i[2])
    \/ \E u \in BagToSet(todo) : VisitCached(u)
    \/ \E u \in BagToSet(todo) : VisitFresh(u)
    \/ GetFails
    \/ fpc = "get" /\ \E r \in PassResponses(url) : GetResponds(r)
    \/ Persist
    \/ Return
    \/ Exit
    \/ \E u \in BagToSet(todo) : LookupRaises(u)
    \/ \E committed \in BOOLEAN : UpsertRaises(committed)
    \/ Abort

SpecFail == Init /\ [][FailNext]_vars

----------------------------------------------------------------------------
(* Runs of the program one after the other, the pass that returned last kept for        *)
(* comparison.  The first run starts on a whole second or half a second after one.      *)

\* what is kept of a pass that returns: its candidates, its clock reading (main.py:46),
\* the counts it returns, and the rows of its candidates as it leaves them
Kept ==
    [urls |-> BagToSet(udemy_urls), start |-> current_time, ret |-> ret[1],
     rows |-> {r \in url_checks : BagIn(r.url, udemy_urls)}]

\* the caller is done with the returned counts
ExitKept ==
    /\ pc = "done"
    /\ last' = Some(Kept)
    /\ pc' = "idle"
    /\ posts' = <<>>
    /\ env_urls' = <<>>
    /\ udemy_urls' = EmptyBag
    /\ todo' = EmptyBag
    /\ current_time' = 0
    /\ counts' = ZeroCounts
    /\ ret' = None
    /\ url' = <<>>
    /\ attempt' = 0
    /\ slept' = <<>>
    /\ fetched' = <<None, None, <<>>>>
    /\ processed' = EmptyBag
    /\ gets' = EmptyBag
    /\ served' = {}
    /\ tries' = <<>>
    /\ UNCHANGED <<clock, advances, requests, url_checks, fpc, written, funVars, mainVars>>

\* the runs find the same links in the posts, or one link less
RepeatInputs ==
    { <<<<Post(<<URL_A, URL_A, URL_B>>)>>, <<>>>>,
      <<<<Post(<<URL_A, URL_C>>), Post(<<URL_A>>)>>, ENV_LIST>> }

\* time between two runs, in ticks: one second less than the cache lifetime, or all of it
RepeatDeltas == {Seconds(CACHE_TTL_SECONDS - 1), Seconds(CACHE_TTL_SECONDS)}

RepeatInit ==
    /\ clock \in {0, 1}
    /\ advances = 0
    /\ requests = 0
    /\ url_checks = {}
    /\ url = <<>>
    /\ InitPass
    /\ fpc = "off"
    /\ attempt = 0
    /\ slept = <<>>
    /\ fetched = <<None, None, <<>>>>
    /\ InitHist
    /\ arg = None
    /\ out = None
    /\ last = None
    /\ InitMain

RepeatNext ==
    \/ \E i \in RepeatInputs : StartPass(i[1], i[2])
    \/ \E u \in BagToSet(todo) : VisitCached(u)
    \/ \E u \in BagToSet(todo) : VisitFresh(u)
    \/ GetFails
    \/ fpc = "get" /\ \E r \in PassResponses(url) : GetResponds(r)
    \/ Persist
    \/ Return
    \/ ExitKept
    \/ \E d \in RepeatDeltas : Advance(d)

SpecRepeat == RepeatInit /\ [][RepeatNext]_vars

----------------------------------------------------------------------------
(* storage/db.py: the posts table, and the loop of main that fills it.  A text value  *)
(* of a post is Some(string), a missing one None; the URLs are strings of characters. *)

\* post.get(name, default)
dict_get(d, name, default) == IF name \in DOMAIN d THEN d[name] ELSE default

\* json.dumps of a list of strings without characters that need escaping
json_dumps(urls) ==
    <<"[">> \o join(<<",", " ">>, [i \in 1..Len(urls) |-> <<"\"">> \o urls[i] \o <<"\"">>])
            \o <<"]">>

\* db.py:68-85: the values of the INSERT for post at clock value now
PostRow(post, now) ==
    [post_id |-> dict_get(post, "post_id", Some("")),
     source |-> dict_get(post, "source", Some("")),
     subreddit |-> dict_get(post, "subreddit", None),
     title |-> dict_get(post, "title", None),
     content |-> dict_get(post, "content", None),
     url_list |-> json_dumps(dict_get(post, "outbound_urls", dict_get(post, "url_list", <<>>))),
     author |-> dict_get(post, "author", None),
     created_utc |-> dict_get(post, "created_utc", None),
     permalink |-> dict_get(post, "permalink", None),
     inserted_at |-> int_time(now)]

\* the comparison of `WHERE post_id = ?`: SQL equality, which is not true of NULL
sql_equal(a, b) == a # None /\ b # None /\ a = b

\* SELECT 1 FROM posts WHERE post_id = ? (db.py:88): the rows found
select_post(table, post_id) == {i \in 1..Len(table) : sql_equal(table[i].post_id, post_id)}

\* insert_post_if_new at clock value now: the table it leaves and what it returns.  The
\* INSERT (db.py:94-103) meets no row of its post_id: the SELECT found none, and the
\* PRIMARY KEY of a TEXT column does not reject NULL.
insert_post_if_new(table, post, now) ==
    IF select_post(table, PostRow(post, now).post_id) # {}
    THEN [table |-> table, returned |-> FALSE]
    ELSE [table |-> Append(table, PostRow(post, now)), returned |-> TRUE]

\* parse_reddit_post (reddit_public.py:91-125): the post made of a feed entry with this
\* id (None for "id": null, Some("") for an entry without id), title and outbound URLs
RedditPost(id, title, urls) ==
    [post_id |-> id, source |-> Some("reddit"), subreddit |-> Some("udemyfreebies"),
     title |-> Some(title), content |-> Some(""), outbound_urls |-> urls,
     author |-> Some("[deleted]"), created_utc |-> Some(0), permalink |-> Some("")]

\* runs of main that insert posts
MaxRuns == 2

\* what collect_reddit_posts may return
Feeds ==
    { <<RedditPost(Some("a"), "one", <<URL_A>>), RedditPost(Some("b"), "other", <<>>),
        RedditPost(Some("a"), "one, edited", <<URL_A, URL_C>>)>>,
      <<RedditPost(Some("a"), "one, edited", <<URL_A, URL_C>>),
        RedditPost(Some(""), "no id", <<URL_B>>)>>,
      <<RedditPost(None, "null id", <<URL_A>>), RedditPost(Some(""), "no id either", <<>>),
        RedditPost(None, "null id again", <<URL_B>>)>>,
      <<>> }

\* main.py:80-88: init_db (the tables are there already), the posts are fetched
Collect(feed) ==
    /\ pc = "idle"
    /\ runs < MaxRuns
    /\ runs' = runs + 1
    /\ posts' = feed
    /\ post_idx' = 1
    /\ inserted_count' = 0
    /\ duplicate_count' = 0
    /\ pc' = "insert"
    /\ UNCHANGED <<clock, advances, requests, url_checks, url, env_urls, udemy_urls, todo,
                   current_time, counts, ret, fetchVars, histVars, funVars, last, db_posts,
                   first_data>>

\* main.py:90-94: one iteration of the loop over the posts
InsertPost ==
    /\ pc = "insert"
    /\ post_idx <= Len(posts)
    /\ LET post == posts[post_idx]
           done == insert_post_if_new(db_posts, post, clock)
           row  == PostRow(post, clock)
       IN  /\ db_posts' = done.table
           /\ inserted_count' = IF done.returned THEN inserted_count + 1 ELSE inserted_count
           /\ duplicate_count' = IF done.returned THEN duplicate_count ELSE duplicate_count + 1
           /\ first_data' = IF done.returned /\ row.post_id \notin DOMAIN first_data
                            THEN (row.post_id :> row) @@ first_data
                            ELSE first_data
           /\ arg' = Some(post)
           /\ out' = Some(done.returned)
    /\ post_idx' = post_idx + 1
    /\ UNCHANGED <<clock, advances, requests, url_checks, url, passVars, fetchVars, histVars,
                   last, runs>>

\* the loop is over, the counts are final
LoopOver == pc = "insert" /\ post_idx > Len(posts)

\* main.py:96-109 without the validation pass: the counts are printed, the run ends
MainExit ==
    /\ LoopOver
    /\ pc' = "idle"
    /\ posts' = <<>>
    /\ post_idx' = 0
    /\ inserted_count' = 0
    /\ duplicate_count' = 0
    /\ arg' = None
    /\ out' = None
    /\ UNCHANGED <<clock, advances, requests, url_checks, url, env_urls, udemy_urls, todo,
                   current_time, counts, ret, fetchVars, histVars, last, db_posts,
                   first_data, runs>>

PostsNext ==
    \/ \E feed \in Feeds : Collect(feed)
    \/ InsertPost
    \/ MainExit
    \/ \E d \in {1, 2} : Advance(d)

SpecPosts == Init /\ [][PostsNext]_vars

----------------------------------------------------------------------------
(* Properties of the classifier (SpecClassify) *)

\* the phrases of rule 2 and of rule 5
InvalidPhrases == {KW_NO_LONGER, KW_COULDNT_FIND, KW_COULD_NOT_FIND, KW_NOT_FOUND}

UnknownPhrases == {KW_PLEASE_LOG_IN, KW_ACCESS_DENIED}

\* s contains phrase k, letter case ignored
HasPhrase(k, s) ==
    \E i \in 0..(Len(s) - Len(k)) : \A j \in 1..Len(k) : lower_char(s[i + j]) = k[j]

HasAny(phrases, s) == \E k \in phrases : HasPhrase(k, s)

Classified == out # None

\* C3: whenever the fetched status is 404 the verdict is INVALID with reason
\* "HTTP 404 - Page not found", whatever the snippet holds.
C3_NotFoundStatusIsInvalid ==
    (Classified /\ fetched[1] = Some(404)) =>
        /\ out[1].status = ValidationStatus.INVALID
        /\ out[1].reason = REASON_404

\* a 404 whose page holds an INVALID phrase, and was classified by its status
C3_Witness ==
    /\ Classified
    /\ fetched[1] = Some(404)
    /\ HasAny(InvalidPhrases, fetched[3])
    /\ out[1].reason = REASON_404

\* C4: a snippet that contains "not found" in any letter case is INVALID under every
\* http status.
C4_NotFoundTextIsInvalid ==
    (Classified /\ HasPhrase(KW_NOT_FOUND, fetched[3])) =>
        out[1].status = ValidationStatus.INVALID

\* a 429 whose page says NOT FOUND in capitals, classified INVALID
C4_Witness ==
    /\ Classified
    /\ fetched[1] = Some(429)
    /\ Contains(TXT_NOT_FOUND_UPPER, fetched[3])
    /\ out[1].status = ValidationStatus.INVALID

\* C5: a snippet with an INVALID phrase and an UNKNOWN phrase is INVALID, never UNKNOWN,
\* under every http status.
C5_InvalidBeatsUnknown ==
    (Classified /\ HasAny(InvalidPhrases, fetched[3]) /\ HasAny(UnknownPhrases, fetched[3])) =>
        out[1].status = ValidationStatus.INVALID

\* a 200 whose page holds a phrase of each kind, classified INVALID by the keyword rule
C5_Witness ==
    /\ Classified
    /\ fetched[1] = Some(200)
    /\ HasAny(InvalidPhrases, fetched[3])
    /\ HasAny(UnknownPhrases, fetched[3])
    /\ out[1].status = ValidationStatus.INVALID

\* the case of the default rule: a status that is neither 404 nor 429, and a snippet with
\* none of the phrases
DefaultCase ==
    /\ fetched[1] \notin {None, Some(404), Some(429)}
    /\ ~HasAny(InvalidPhrases, fetched[3])
    /\ ~HasAny(UnknownPhrases, fetched[3])

\* C16: in the case of the default rule the verdict is VALID with reason "URL accessible
\* and appears valid", and the verdict is VALID in no other case.
C16_OptimisticDefault ==
    Classified =>
        /\ DefaultCase =>
               /\ out[1].status = ValidationStatus.VALID
               /\ out[1].reason = REASON_VALID
        /\ out[1].status = ValidationStatus.VALID => DefaultCase

\* a 500 with a page that holds none of the phrases, classified VALID
C16_Witness ==
    /\ Classified
    /\ fetched[1] = Some(500)
    /\ fetched[3] # <<>>
    /\ DefaultCase
    /\ out[1].status = ValidationStatus.VALID
    /\ out[1].reason = REASON_VALID

\* C20: a 429 whose snippet holds no INVALID phrase is UNKNOWN with reason "HTTP 429 -
\* Rate limited", with or without an UNKNOWN phrase in the snippet; a status that is
\* present and neither 404 nor 429, with an UNKNOWN phrase and no INVALID phrase in the
\* snippet, is UNKNOWN with the reason "Requires authentication: '<phrase>'" for a phrase
\* the snippet holds.
C20_RateLimitThenLogin ==
    (Classified /\ ~HasAny(InvalidPhrases, fetched[3])) =>
        /\ fetched[1] = Some(429) =>
               /\ out[1].status = ValidationStatus.UNKNOWN
               /\ out[1].reason = REASON_429
        /\ (fetched[1] \notin {None, Some(404), Some(429)}
                /\ HasAny(UnknownPhrases, fetched[3])) =>
               /\ out[1].status = ValidationStatus.UNKNOWN
               /\ \E k \in UnknownPhrases :
                      /\ HasPhrase(k, fetched[3])
                      /\ out[1].reason = REASON_AUTH \o k \o QUOTE

\* a 429 whose page asks to log in, classified by its status
C20_Witness ==
    /\ Classified
    /\ fetched[1] = Some(429)
    /\ HasPhrase(KW_PLEASE_LOG_IN, fetched[3])
    /\ ~HasAny(InvalidPhrases, fetched[3])
    /\ out[1].reason = REASON_429

\* a 403 whose page says access denied, classified by the phrase
C20_WitnessPhrase ==
    /\ Classified
    /\ fetched[1] = Some(403)
    /\ HasPhrase(KW_ACCESS_DENIED, fetched[3])
    /\ ~HasPhrase(KW_PLEASE_LOG_IN, fetched[3])
    /\ out[1].status = ValidationStatus.UNKNOWN
    /\ out[1].reason = REASON_AUTH \o KW_ACCESS_DENIED \o QUOTE

----------------------------------------------------------------------------
(* Properties of fetch_url (SpecFetch) *)

Min(a, b) == IF a < b THEN a ELSE b

Errors == {i \in 1..Len(tries) : tries[i].kind = "error"}

\* every requests.get of the call so far raised, and there were three of them
AllFailed == Len(tries) = 3 /\ Cardinality(Errors) = 3

\* 0.5 s and 1.0 s, in ticks
BackoffDelays == <<Seconds(1) \div 2, Seconds(1)>>

C6_Attempts ==
    /\ Len(tries) <= 3
    /\ \A i \in 1..(Len(tries) - 1) : tries[i].kind = "error"
    /\ slept = SubSeq(BackoffDelays, 1, Min(Cardinality(Errors), 2))
    /\ AllFailed => (fpc = "returned" /\ fetched = <<None, None, <<>>>>)

\* C6: a call makes at most 3 GET attempts, a further one only after a failed one; it
\* sleeps 0.5 s before the second and 1.0 s before the third and not after the last; three
\* failures make it return (None, None, ""); and every call returns.
C6_RetryAndTerminate == []C6_Attempts /\ <>(fpc = "returned")

\* three failed attempts, two sleeps, the failure outcome returned
C6_Witness ==
    /\ AllFailed
    /\ slept = BackoffDelays
    /\ fpc = "returned"
    /\ fetched = <<None, None, <<>>>>

\* C8: a response of any status code ends the call on the attempt that received it, with
\* (status code, final URL, extracted snippet) returned, no later attempt and no later
\* sleep; it is never the (None, None, "") outcome.
C8_AnyStatusIsSuccess ==
    \A i \in 1..Len(tries) :
        tries[i].kind = "response" =>
            /\ i = Len(tries)
            /\ fpc = "returned"
            /\ Len(slept) = i - 1
            /\ fetched[1] = Some(tries[i].response.status_code)
            /\ fetched[2] = Some(tries[i].response.url)
            /\ fetched[3] = extract_plain_text(tries[i].response.text, 2000)

\* a 500 received on the second attempt and returned as it is, after one sleep
C8_Witness ==
    /\ Len(tries) = 2
    /\ tries[2].kind = "response"
    /\ tries[2].response.status_code = 500
    /\ tries[2].response.url = URL_R
    /\ fpc = "returned"
    /\ fetched[1] = Some(500)
    /\ fetched[2] = Some(URL_R)
    /\ Len(slept) = 1

----------------------------------------------------------------------------
(* Properties of the store (SpecStore) *)

\* C9: after any sequence of upserts the table holds exactly one row per URL written, and
\* the row has the status, reason, http_status, final_url and checked_at of the latest
\* upsert for that URL.
C9_OneRowLastWrite ==
    /\ {r.url : r \in url_checks} = DOMAIN written
    /\ Cardinality(url_checks) = Cardinality(DOMAIN written)
    /\ \A r \in url_checks :
           /\ r.status = written[r.url].status
           /\ r.reason = written[r.url].reason
           /\ r.http_status = written[r.url].http_status
           /\ r.final_url = written[r.url].final_url
           /\ r.checked_at = written[r.url].checked_at

\* one URL upserted more than once, the last time as INVALID, and another URL beside it
C9_Witness ==
    /\ DOMAIN written = {URL_A, URL_B}
    /\ written[URL_A].times = 2
    /\ written[URL_A].status = "INVALID"
    /\ Cardinality(url_checks) = 2

----------------------------------------------------------------------------
(* Properties of the validation pass (Spec) *)

\* the rows the store holds for u
Entries(u) == {r \in url_checks : r.url = u}

\* the counter that main.py:66-71 gives a status
CounterOf(status) ==
    IF status = "VALID" THEN "valid" ELSE IF status = "INVALID" THEN "invalid" ELSE "unknown"

\* the step is the start of a loop iteration, on url'
Visits == pc = "loop" /\ processed' # processed

\* the step is the end of an iteration that called fetch_url, on url
Persists == pc = "fetch" /\ pc' = "loop"

\* the step reuses row r: its status is counted, cached goes up, nothing is fetched or written
ReusesRow(r) ==
    /\ counts'.cached = counts.cached + 1
    /\ counts'.fresh = counts.fresh
    /\ counts'[CounterOf(r.status)] = counts[CounterOf(r.status)] + 1
    /\ pc' = "loop"
    /\ UNCHANGED <<gets, requests, url_checks, fpc>>

\* the step calls fetch_url for url' and counts nothing yet
StartsFetch ==
    /\ pc' = "fetch"
    /\ fpc' = "get"
    /\ attempt' = 0
    /\ UNCHANGED <<counts, url_checks>>

\* the step stores the verdict on what fetch_url returned for url, and counts it as fresh
StoresVerdict ==
    /\ BagIn(url, gets)
    /\ counts'.fresh = counts.fresh + 1
    /\ counts'.cached = counts.cached
    /\ \E r \in url_checks' :
           /\ {x \in url_checks' : x.url = url} = {r}
           /\ r.status \in {"VALID", "INVALID", "UNKNOWN"}
           /\ r.http_status = fetched[1]
           /\ r.final_url = fetched[2]
           /\ r.checked_at = int_time(clock)
           /\ counts'[CounterOf(r.status)] = counts[CounterOf(r.status)] + 1

\* C1: an iteration on a URL whose entry is younger than 86400 s reuses the entry's status,
\* counts it as cached and fetches nothing; any other iteration (no entry, or an entry aged
\* 86400 s or more) fetches, classifies, upserts the verdict and counts it as fresh.
C1_CacheOrFresh ==
    [][ /\ Visits =>
               IF \E r \in Entries(url') : current_time - Seconds(r.checked_at) < Seconds(86400)
               THEN \E r \in Entries(url') : ReusesRow(r)
               ELSE StartsFetch
        /\ Persists => StoresVerdict
        /\ \A r \in served' : ~BagIn(r.url, gets') ]_vars

\* a finished pass that reused one entry and fetched another URL
C1_Witness ==
    /\ pc = "done"
    /\ counts.cached >= 1
    /\ counts.fresh >= 1
    /\ served # {}

\* fetch_url has returned for a URL whose entry is exactly 86400 s old
C1_WitnessExpired ==
    /\ pc = "fetch"
    /\ fpc = "returned"
    /\ \E r \in Entries(url) : current_time = Seconds(r.checked_at + 86400)

\* C2: an entry with checkedAt = now - 86399 is reused (cached goes up, fresh does not); an
\* entry with checkedAt = now - 86401 is checked afresh (fresh goes up, cached does not).
C2_FreshnessBoundary ==
    [][ /\ (Visits /\ \E r \in Entries(url') : current_time = Seconds(r.checked_at + 86399)) =>
               /\ counts'.cached = counts.cached + 1
               /\ counts'.fresh = counts.fresh
               /\ pc' = "loop"
        /\ (Visits /\ \E r \in Entries(url') : current_time = Seconds(r.checked_at + 86401)) =>
               /\ counts' = counts
               /\ pc' = "fetch"
        /\ (Persists /\ \E r \in Entries(url) : current_time = Seconds(r.checked_at + 86401)) =>
               /\ counts'.fresh = counts.fresh + 1
               /\ counts'.cached = counts.cached ]_vars

\* an entry written 86399 s before the pass's clock reading was reused
C2_Witness ==
    /\ pc = "done"
    /\ \E r \in served : current_time = Seconds(r.checked_at + 86399)
    /\ counts.cached >= 1
    /\ counts.fresh = 0

\* fetch_url has returned for a URL whose entry is 86401 s old
C2_WitnessStale ==
    /\ pc = "fetch"
    /\ fpc = "returned"
    /\ \E r \in Entries(url) : current_time = Seconds(r.checked_at + 86401)

\* C7: when every attempt for a URL fails, the verdict is UNKNOWN with reason "Network
\* error - could not fetch URL", http_status None and final_url None; it is stored and
\* counted as unknown, and the loop goes on.
C7_NetworkFailureIsUnknown ==
    [][ (pc = "fetch" /\ fpc = "returned" /\ AllFailed) =>
            /\ fetched = <<None, None, <<>>>>
            /\ validate_udemy_url(url, fetched) =
                   ValidationResult(url, ValidationStatus.UNKNOWN, REASON_NETWORK, None, None)
            /\ pc' = "loop"
            /\ todo' = todo
            /\ counts'.unknown = counts.unknown + 1
            /\ counts'.valid = counts.valid
            /\ counts'.invalid = counts.invalid
            /\ \E r \in url_checks' :
                   /\ r.url = url
                   /\ r.status = "UNKNOWN"
                   /\ r.reason = REASON_NETWORK
                   /\ r.http_status = None
                   /\ r.final_url = None ]_vars

\* the unreachable URL is counted as unknown and the loop has another URL to go
C7_Witness ==
    /\ pc = "loop"
    /\ AllFailed
    /\ counts.unknown = 1
    /\ todo # EmptyBag
    /\ \E r \in url_checks : r.url = url /\ r.status = "UNKNOWN"

\* the distinct candidate URLs of the pass's input: the Udemy links of the posts, or the
\* stripped pieces of the fallback list when the posts have none
Candidates ==
    LET links  == {u \in UNION {{posts[i].outbound_urls[j] : j \in 1..Len(posts[i].outbound_urls)}
                                : i \in 1..Len(posts)} : HasPhrase(UDEMY_COM, u)}
        pieces == split_on(strip(env_urls), ",")
    IN  IF links # {} THEN links
        ELSE IF strip(env_urls) # <<>> THEN {strip(pieces[i]) : i \in 1..Len(pieces)}
        ELSE {}

\* C10: a pass visits no URL twice; when it is done it has visited each distinct candidate
\* URL once, and the total it returns is the number of distinct candidate URLs.
C10_Deduplication ==
    /\ \A u \in BagToSet(processed) : CopiesIn(u, processed) = 1
    /\ pc = "done" =>
           /\ BagToSet(processed) = Candidates
           /\ ret[1][1] = Cardinality(Candidates)

\* the input [a, a, b] gave a pass over 2 URLs
C10_Witness ==
    /\ pc = "done"
    /\ posts = <<Post(<<URL_A, URL_A, URL_B>>)>>
    /\ BagCardinality(processed) = 2
    /\ ret[1][1] = 2

\* the URLs whose iteration is over: all visited ones but the one being fetched
Counted == IF pc = "fetch" THEN BagToSet(processed) \ {url} ELSE BagToSet(processed)

\* the URLs of the pass that were counted with status s: the status of their entry, which
\* is the one reused or the one just stored
CountedAs(s) == {u \in Counted : \E r \in Entries(u) : r.status = s}

\* C11: every URL whose iteration is over is counted once as cached (its entry was reused)
\* or once as fresh (it was fetched), and once under the counter of its status; the counts a
\* pass returns are these, so fresh + cached = total and valid + invalid + unknown = total.
C11_ConsistentCounts ==
    /\ counts.cached = Cardinality({u \in Counted : \E r \in served : r.url = u})
    /\ counts.fresh = Cardinality({u \in Counted : BagIn(u, gets)})
    /\ counts.cached + counts.fresh = Cardinality(Counted)
    /\ counts.valid = Cardinality(CountedAs("VALID"))
    /\ counts.invalid = Cardinality(CountedAs("INVALID"))
    /\ counts.unknown = Cardinality(CountedAs("UNKNOWN"))
    /\ counts.valid + counts.invalid + counts.unknown = Cardinality(Counted)
    /\ pc = "done" =>
           /\ ret[1] = <<Cardinality(Counted), counts.fresh, counts.cached, counts.valid,
                         counts.invalid, counts.unknown>>
           /\ ret[1][2] + ret[1][3] = ret[1][1]
           /\ ret[1][4] + ret[1][5] + ret[1][6] = ret[1][1]

\* a pass over 2 URLs returned 1 fresh, 1 cached, 1 valid, 1 invalid, 0 unknown
C11_Witness ==
    /\ pc = "done"
    /\ ret = Some(<<2, 1, 1, 1, 1, 0>>)

\* C12: the store changes only on the step that stores a fresh verdict, and then only in
\* the row of the URL that was fetched: the lookup at the start of an iteration changes no
\* row, the rows served from cache in this pass stay exactly as they were served, the rows
\* of URLs that are no candidates of the pass stay as they are, and no URL loses its row.
C12_WrittenOnlyWhenFresh ==
    [][ /\ Visits => url_checks' = url_checks
        /\ url_checks' # url_checks => (Persists /\ BagIn(url, gets))
        /\ \A r \in url_checks : r.url # url => r \in url_checks'
        /\ \A r \in served' : r \in url_checks'
        /\ \A r \in url_checks : ~BagIn(r.url, udemy_urls) => r \in url_checks'
        /\ \A r \in url_checks : \E x \in url_checks' : x.url = r.url ]_vars

\* a finished pass that reused an entry written more than a second earlier, stored a fresh
\* verdict for another URL, and found the row of a URL that is no candidate
C12_Witness ==
    /\ pc = "done"
    /\ \E r \in served : r \in url_checks /\ r.checked_at < int_time(current_time)
    /\ counts.fresh >= 1
    /\ \E r \in url_checks : ~BagIn(r.url, udemy_urls)

\* C14: whatever passes have run, every row of url_checks has one of the three status
\* texts VALID, INVALID, UNKNOWN, and so no row is without a status.
C14_StatusIsEnumValue ==
    \A r \in url_checks : r.status \in {"VALID", "INVALID", "UNKNOWN"}

\* passes have left a row of a URL that could not be fetched beside a row of a valid one
C14_Witness ==
    /\ pc = "idle"
    /\ \E r \in url_checks : r.status = "UNKNOWN" /\ r.http_status = None
    /\ \E r \in url_checks : r.status = "VALID"

\* C15: the clock never goes back, and on no step does the checked_at of a URL's row get
\* smaller; the row a pass writes is stamped with the whole seconds of the time of the write.
C15_CheckedAtNeverDecreases ==
    [][ /\ clock' >= clock
        /\ \A r \in url_checks : \A x \in url_checks' :
               x.url = r.url => x.checked_at >= r.checked_at
        /\ Persists => \A x \in Entries(url)' : x.checked_at = int_time(clock) ]_vars

\* a URL written by one pass was written again by a later pass, a cache lifetime later
C15_Witness ==
    \E r \in url_checks :
        /\ r.url \in DOMAIN written
        /\ written[r.url].times = 2
        /\ r.checked_at = written[r.url].checked_at
        /\ r.checked_at >= CACHE_TTL_SECONDS

\* the outbound URLs of the posts
PostLinks ==
    UNION {{posts[i].outbound_urls[j] : j \in 1..Len(posts[i].outbound_urls)} : i \in 1..Len(posts)}

\* those of them that contain "udemy.com", letter case ignored
UdemyLinks == {u \in PostLinks : HasPhrase(UDEMY_COM, u)}

\* the entries of the fallback list, stripped
FallbackList ==
    LET pieces == split_on(strip(env_urls), ",")
    IN  IF strip(env_urls) = <<>> THEN {} ELSE {strip(pieces[i]) : i \in 1..Len(pieces)}

\* C17: when the loop of a pass starts and when the pass returns, its candidates are these:
\* if the posts hold URLs that contain "udemy.com" (letter case ignored), exactly these URLs,
\* and the fallback list is not looked at; if they hold none, exactly the entries of the
\* fallback list, which are none when the list is empty.  A pass looks up and fetches
\* candidates only, and has visited them all when it returns.
C17_CandidateSelection ==
    /\ ((pc = "loop" /\ processed = EmptyBag) \/ pc = "done") =>
           LET links == UdemyLinks
               cands == BagToSet(udemy_urls)
           IN  /\ links # {} => cands = links
               /\ links = {} => cands = FallbackList
               /\ cands # links <=> (links = {} /\ FallbackList # {})
    /\ pc # "idle" =>
           /\ BagToSet(processed) \subseteq BagToSet(udemy_urls)
           /\ BagToSet(gets) \subseteq BagToSet(udemy_urls)
           /\ {r.url : r \in served} \subseteq BagToSet(udemy_urls)
    /\ pc = "done" => BagToSet(processed) = BagToSet(udemy_urls)

\* posts with a link in capitals and a non-empty fallback list: the pass was over the links
C17_Witness ==
    /\ pc = "done"
    /\ URL_C \in PostLinks
    /\ UdemyLinks # {}
    /\ FallbackList # {}
    /\ BagToSet(processed) = UdemyLinks

\* posts without a Udemy link: the pass was over the fallback list, whose entries are
\* taken as they are
C17_WitnessFallback ==
    /\ pc = "done"
    /\ PostLinks # {}
    /\ UdemyLinks = {}
    /\ BagToSet(processed) = FallbackList
    /\ URL_C \in FallbackList

\* posts with the Udemy link in capitals
C17_WitnessCapitals ==
    /\ pc = "done"
    /\ URL_B \in BagToSet(processed)

\* the verdict for u is in the store: its one row is the one last asked for
Committed(u) ==
    /\ u \in DOMAIN written
    /\ \E r \in url_checks :
           /\ Entries(u) = {r}
           /\ r.status = written[u].status
           /\ r.checked_at = written[u].checked_at

\* C18: in a pass no URL is visited twice; a GET is sent only inside the fetch of the URL
\* visited last, at most 3 times for a URL and never for a URL served from cache; from the
\* visit of a URL that is fetched to the upsert of its verdict no other URL is visited; and
\* when the lookup of a URL starts, no fetch is open and the verdict of every URL fetched
\* before it in the pass is in the store.
C18_OneUrlAtATime ==
    [][ /\ \A u \in BagToSet(processed') : CopiesIn(u, processed') = 1
        /\ \A u \in BagToSet(gets') :
               /\ CopiesIn(u, gets') <= 3
               /\ ~\E r \in served' : r.url = u
        /\ requests' # requests =>
               /\ pc = "fetch" /\ fpc = "get"
               /\ gets' = gets (+) SetToBag({url})
               /\ BagIn(url, processed) /\ ~BagIn(url, todo)
        /\ pc = "fetch" =>
               /\ url' = url /\ todo' = todo /\ processed' = processed
               /\ pc' = "loop" => (fpc = "returned" /\ Committed(url)')
        /\ Visits =>
               /\ fpc = "off"
               /\ \A u \in BagToSet(gets) : Committed(u) ]_vars

\* a pass served one URL from cache, sent 3 GETs for another one and stored its verdict
C18_Witness ==
    /\ pc = "done"
    /\ \E r \in served : ~BagIn(r.url, gets)
    /\ \E u \in BagToSet(gets) : CopiesIn(u, gets) = 3 /\ Committed(u)

----------------------------------------------------------------------------
(* Properties of the validation pass over a store that can fail (SpecFail) *)

\* the step is a store error leaving validate_udemy_urls
Raises == pc # "raised" /\ pc' = "raised"

\* C13: a store error in the lookup or in the upsert ends the pass at once: the call
\* returns no counts, counts no URL more, visits no further URL, fetches and writes nothing
\* more; the failing upsert leaves the rows of its URL either as they were or as the one row
\* of the new verdict; every other row, those written earlier in the pass among them,
\* stays as it is; and the loop goes on after a fetch only with the verdict stored.
C13_StoreFailureIsFatal ==
    [][ /\ Raises =>
               /\ ret' = None
               /\ counts' = counts
               /\ \A r \in url_checks : r.url # url' => r \in url_checks'
               /\ \A r \in url_checks' : r.url # url' => r \in url_checks
               /\ \/ url_checks' = url_checks
                  \/ /\ pc = "fetch"
                     /\ url_checks' = upsert_url_check(url_checks,
                                          validate_udemy_url(url, fetched), clock)
        /\ Persists =>
               /\ counts'.fresh = counts.fresh + 1
               /\ url_checks' = upsert_url_check(url_checks,
                                    validate_udemy_url(url, fetched), clock)
        /\ pc = "raised" =>
               /\ pc' = "idle"
               /\ ret = None
               /\ url_checks' = url_checks
               /\ requests' = requests
        /\ pc' = "raised" =>
               \A u \in BagToSet(gets') \ {url'} :
                   \E r \in url_checks' :
                       /\ Entries(u)' = {r}
                       /\ r.status = written'[u].status
                       /\ r.reason = written'[u].reason
                       /\ r.http_status = written'[u].http_status
                       /\ r.final_url = written'[u].final_url
                       /\ r.checked_at = written'[u].checked_at ]_vars

\* the upsert of the second URL of a pass failed, the verdict of the first one is stored
C13_Witness ==
    /\ pc = "raised"
    /\ BagIn(url, gets)
    /\ ret = None
    /\ \E u \in BagToSet(gets) \ {url} : Entries(u) # {}

\* the lookup of the first URL of a pass failed, another URL is left unvisited
C13_WitnessLookup ==
    /\ pc = "raised"
    /\ ~BagIn(url, gets)
    /\ todo # EmptyBag
    /\ counts = ZeroCounts

----------------------------------------------------------------------------
(* Properties of a pass that follows a pass over the same URLs (SpecRepeat) *)

\* a pass is running or has returned, and the pass before it was over the same candidates
SamePassAgain ==
    /\ pc # "idle"
    /\ last # None
    /\ BagToSet(udemy_urls) = last[1].urls

\* the pass reuses every entry: it counts no URL as fresh, fetches nothing, leaves the rows
\* as the pass before left them, and returns the counts of the pass before with fresh = 0
\* and cached = total
AllFromCache ==
    /\ counts.fresh = 0
    /\ pc # "fetch"
    /\ gets = EmptyBag
    /\ {r \in url_checks : BagIn(r.url, udemy_urls)} = last[1].rows
    /\ pc = "done" =>
           ret[1] = <<Cardinality(last[1].urls), 0, Cardinality(last[1].urls),
                      last[1].ret[4], last[1].ret[5], last[1].ret[6]>>

\* every entry the pass before left is younger than 86400 s at this pass's clock reading
EntriesStillFresh ==
    \A r \in last[1].rows : current_time - Seconds(r.checked_at) < Seconds(CACHE_TTL_SECONDS)

\* C19 as stated: a pass over the same URLs that starts less than 86400 s after the start
\* of the pass before reuses every entry.
C19_SecondPassAllCached ==
    (SamePassAgain /\ current_time - last[1].start < Seconds(CACHE_TTL_SECONDS)) =>
        AllFromCache

\* C19, amended: when a pass returns, every candidate has an entry younger than 86400 s at
\* the pass's clock reading; a following pass over the same URLs reuses every entry when
\* each of these entries is younger than 86400 s at its own clock reading, whatever the
\* stored status; this is so when the pass before fetched every URL and the pass starts at
\* most 86399 s after the start of the pass before.
C19_SecondPassAllCachedWhileFresh ==
    /\ pc = "done" =>
           \A u \in BagToSet(udemy_urls) :
               \E r \in Entries(u) :
                   current_time - Seconds(r.checked_at) < Seconds(CACHE_TTL_SECONDS)
    /\ (SamePassAgain /\ EntriesStillFresh) => AllFromCache
    /\ ( /\ SamePassAgain
         /\ last[1].ret[3] = 0
         /\ current_time - last[1].start <= Seconds(CACHE_TTL_SECONDS - 1) ) => EntriesStillFresh

\* a pass that fetched 2 URLs, one of them unreachable, and 86399 s or more after its
\* start a pass over the same URLs that took both verdicts from the cache
C19_Witness ==
    /\ pc = "done"
    /\ SamePassAgain
    /\ last[1].ret = <<2, 2, 0, 1, 0, 1>>
    /\ current_time - last[1].start >= Seconds(CACHE_TTL_SECONDS - 1)
    /\ ret[1] = <<2, 0, 2, 1, 0, 1>>

\* a pass refetches a URL less than 86400 s after the start of a pass over the same URLs
\* that had taken this URL's verdict from the cache: the entry was not new then
C19_WitnessOldEntry ==
    /\ SamePassAgain
    /\ current_time - last[1].start < Seconds(CACHE_TTL_SECONDS)
    /\ pc = "fetch"
    /\ \E r \in last[1].rows : r.url = url /\ Seconds(r.checked_at + 1) <= last[1].start

\* a pass refetches a URL less than 86400 s after the start of a pass over the same URLs
\* that had fetched every URL: the entry carries the whole seconds of its write, the pass
\* started half a second later than that
C19_WitnessWholeSeconds ==
    /\ SamePassAgain
    /\ current_time - last[1].start < Seconds(CACHE_TTL_SECONDS)
    /\ pc = "fetch"
    /\ last[1].ret[3] = 0
    /\ \E r \in last[1].rows : r.url = url /\ Seconds(r.checked_at) < last[1].start

----------------------------------------------------------------------------
(* Properties of insert_post_if_new and of the loop of main (SpecPosts) *)

\* the rows of the posts table with this post_id, None taken as a post_id like any other
RowsOf(table, id) == {i \in 1..Len(table) : table[i].post_id = id}

\* the step is a call of insert_post_if_new on posts[post_idx]
InsertCall == pc = "insert" /\ post_idx' = post_idx + 1

\* C21: a call returns True exactly when the table had no row of the post's post_id, and
\* then appends the post's row; it returns False and leaves the table as it is otherwise.
\* The table has one row per post_id, each as its first insert wrote it, and when the loop
\* of main is over inserted_count + duplicate_count is the number of posts.
C21_InsertIfNew ==
    [][ /\ InsertCall =>
               LET post == posts[post_idx]
                   id   == dict_get(post, "post_id", Some(""))
               IN  /\ out' = Some(RowsOf(db_posts, id) = {})
                   /\ RowsOf(db_posts, id) = {} =>
                          db_posts' = Append(db_posts, PostRow(post, clock))
                   /\ RowsOf(db_posts, id) # {} => db_posts' = db_posts
        /\ \A i \in 1..Len(db_posts') :
               /\ RowsOf(db_posts', db_posts'[i].post_id) = {i}
               /\ db_posts'[i] = first_data'[db_posts'[i].post_id]
        /\ LoopOver' => inserted_count' + duplicate_count' = Len(posts') ]_vars

\* two rows without a post_id: the second post with "id": null was inserted as well
C21_WitnessNullId ==
    \E i, j \in 1..Len(db_posts) :
        /\ i < j
        /\ db_posts[i].post_id = None
        /\ db_posts[j].post_id = None

\* the same with posts that have a post_id, the empty one included: what C21 states holds
C21_InsertIfNewWithId ==
    [][ /\ (InsertCall /\ dict_get(posts[post_idx], "post_id", Some("")) # None) =>
               LET post == posts[post_idx]
                   id   == dict_get(post, "post_id", Some(""))
               IN  /\ out' = Some(RowsOf(db_posts, id) = {})
                   /\ RowsOf(db_posts, id) = {} =>
                          db_posts' = Append(db_posts, PostRow(post, clock))
                   /\ RowsOf(db_posts, id) # {} => db_posts' = db_posts
        /\ \A i \in 1..Len(db_posts') :
               db_posts'[i].post_id # None =>
                   /\ RowsOf(db_posts', db_posts'[i].post_id) = {i}
                   /\ db_posts'[i] = first_data'[db_posts'[i].post_id]
        /\ LoopOver' => inserted_count' + duplicate_count' = Len(posts') ]_vars

\* a post whose post_id is in the table with other data was counted as a duplicate
C21_WitnessDuplicate ==
    /\ LoopOver
    /\ duplicate_count >= 1
    /\ inserted_count >= 1
    /\ \E i \in 1..Len(db_posts) : \E k \in 1..Len(posts) :
           /\ posts[k].post_id = db_posts[i].post_id
           /\ posts[k].title # db_posts[i].title

----------------------------------------------------------------------------
(* Properties of extract_plain_text (SpecExtract) *)

\* the snippet extract_plain_text returned
Snippet == fetched[3]

\* no newline, tab or other whitespace but single spaces, and none at the start
Normalised(text) ==
    /\ \A i \in 1..Len(text) : IsSpace(text[i]) => text[i] = " "
    /\ \A i \in 1..(Len(text) - 1) : ~(IsSpace(text[i]) /\ IsSpace(text[i + 1]))
    /\ text # <<>> => ~IsSpace(text[1])

\* what the rules give for a status code and an empty snippet
StatusAlone(code) ==
    IF code = 404 THEN ValidationStatus.INVALID
    ELSE IF code = 429 THEN ValidationStatus.UNKNOWN
    ELSE ValidationStatus.VALID

\* C22 as stated: for every body and every max_length the snippet is at most max_length
\* characters long, has no run of whitespace, no newline or tab and no whitespace at its
\* start; a body the parser fails on gives the empty snippet, and the classifier then
\* decides by the status code alone.
C22_SnippetForEveryMaxLength ==
    fpc = "returned" =>
        /\ Len(Snippet) <= arg[1].max_length
        /\ Normalised(Snippet)
        /\ arg[1].html_content.error => Snippet = <<>>
        /\ (arg[1].html_content.error /\ out # None) =>
               out[1].status = StatusAlone(arg[1].status_code)

\* C22 for max_length >= 0: the snippet is at most max_length characters long, has no run
\* of whitespace, no newline or tab and no whitespace at its start, whatever max_length
\* is; a body the parser fails on gives the empty snippet, and the classifier then decides
\* by the status code alone.
C22_SnippetIsNormalised ==
    fpc = "returned" =>
        /\ arg[1].max_length >= 0 => Len(Snippet) <= arg[1].max_length
        /\ Normalised(Snippet)
        /\ arg[1].html_content.error => Snippet = <<>>
        /\ (arg[1].html_content.error /\ out # None) =>
               out[1].status = StatusAlone(arg[1].status_code)

\* a body with a newline, a tab and leading whitespace was cut to max_length characters
C22_Witness ==
    /\ fpc = "returned"
    /\ arg[1].html_content.parts = <<<<"\n", "a">>, <<"\t", "a">>>>
    /\ arg[1].max_length = 2
    /\ Snippet = <<"a", " ">>

\* a body the parser fails on, with a keyword in it, was classified by its status 200
C22_WitnessParseFailure ==
    /\ out # None
    /\ arg[1].html_content = [parts |-> <<TXT_PAGE_NOT_FOUND>>, error |-> TRUE]
    /\ arg[1].status_code = 200
    /\ out[1].status = ValidationStatus.VALID

\* max_length -1 cut the last character only: the snippet is longer than max_length
C22_WitnessNegative ==
    /\ fpc = "returned"
    /\ arg[1].max_length = -1
    /\ arg[1].html_content.parts = <<<<"a", "a">>, <<"a">>>>
    /\ Snippet = <<"a", "a", " ">>

====
